---- MODULE Spec2Model ----
(***************************************************************************)
(* Coastal Blue Carbon (natcap.invest.coastal_blue_carbon): get_inputs,    *)
(* the block loop of execute, the per-block time loop, the snapshot        *)
(* aggregation and write_to_raster, for a raster whose blocks hold one     *)
(* pixel each.  Pixel values are IEEE-754 binary32 numbers, modelled as    *)
(* m * 2^x with an odd 24-bit mantissa, NaN and the two infinities.        *)
(***************************************************************************)
EXTENDS Integers, Sequences, FiniteSets, TLC

(***************************************************************************)
(* Bounds of the explored inputs.                                          *)
(***************************************************************************)
MaxSpan == 3        \* years are drawn from BaseYear .. BaseYear + MaxSpan
MaxTrans == 2       \* at most this many transition years / rasters
MaxBlocks == 3      \* blocks plus transition rasters of a reordered run
MaxProgressBlocks == 4    \* blocks of a run against the clock
MaxTime == 12       \* seconds of wall-clock time observed
MaxFileBlocks == 2  \* buffers of a short file
LongFileBlocks == 101     \* buffers after the first of a long file

BaseYear == 2000
Years == BaseYear .. (BaseYear + MaxSpan)
NoYear == 0 - 1     \* args without 'analysis_year' (or '' / None)

(***************************************************************************)
(* binary32 values.                                                        *)
(***************************************************************************)
Num(m, x) == [k |-> "num", m |-> m, x |-> x]
NaN == [k |-> "nan", m |-> 0, x |-> 0]
PInf == [k |-> "pinf", m |-> 0, x |-> 0]
NInf == [k |-> "ninf", m |-> 0, x |-> 0]
Zero == Num(0, 0)

Abs(n) == IF n < 0 THEN 0 - n ELSE n
Sgn(n) == IF n < 0 THEN 0 - 1 ELSE 1

RECURSIVE BitLen(_)
BitLen(n) == IF n = 0 THEN 0 ELSE 1 + BitLen(n \div 2)

RECURSIVE Norm(_, _)
\* strip trailing zero bits of the mantissa
Norm(m, x) ==
    IF m = 0 THEN Zero
    ELSE IF m % 2 = 0 THEN Norm(m \div 2, x + 1)
    ELSE Num(m, x)

\* round a magnitude to 24 significant bits, ties to even; overflow gives
\* an infinity (binary32: largest finite value is (2^24 - 1) * 2^104)
Round24(sign, M, x) ==
    LET n == BitLen(M)
        k == IF n > 24 THEN n - 24 ELSE 0
        q == M \div (2 ^ k)
        r == M % (2 ^ k)
        half == IF k = 0 THEN 1 ELSE 2 ^ (k - 1)
        up == k > 0 /\ (r > half \/ (r = half /\ q % 2 = 1))
        q2 == IF up THEN q + 1 ELSE q
    IN  IF q2 = 0 THEN Zero
        ELSE IF BitLen(q2) + x + k > 128
             THEN (IF sign < 0 THEN NInf ELSE PInf)
        ELSE Norm(sign * q2, x + k)

FromInt(n) == Round24(Sgn(n), Abs(n), 0)

Top(a) == a.x + BitLen(Abs(a.m))

FNeg(a) ==
    CASE a.k = "nan" -> NaN
      [] a.k = "pinf" -> NInf
      [] a.k = "ninf" -> PInf
      [] OTHER -> Num(0 - a.m, a.x)

\* magnitude of lo at scale 2^s; a dropped non-zero fraction is jammed
\* into the lowest bit (sticky bit)
Align(lo, s) ==
    IF lo.x >= s THEN Abs(lo.m) * (2 ^ (lo.x - s))
    ELSE LET sh == s - lo.x
             q == IF sh >= 25 THEN 0 ELSE Abs(lo.m) \div (2 ^ sh)
         IN  IF q % 2 = 0 THEN q + 1 ELSE q

FAddNum(a, b) ==
    IF a.m = 0 THEN b
    ELSE IF b.m = 0 THEN a
    ELSE IF Abs(a.x - b.x) <= 6
    THEN \* the exact sum fits the integers: add at the smaller exponent
         LET x0 == IF a.x <= b.x THEN a.x ELSE b.x
             total == a.m * (2 ^ (a.x - x0)) + b.m * (2 ^ (b.x - x0))
         IN  Round24(Sgn(total), Abs(total), x0)
    ELSE LET hi == IF Top(a) >= Top(b) THEN a ELSE b
             lo == IF Top(a) >= Top(b) THEN b ELSE a
             s == Top(hi) - 30
             A == Abs(hi.m) * (2 ^ (hi.x - s))
             B == Align(lo, s)
             total == Sgn(hi.m) * A + Sgn(lo.m) * B
         IN  Round24(Sgn(total), Abs(total), s)

FAdd(a, b) ==
    CASE a.k = "nan" \/ b.k = "nan" -> NaN
      [] a.k = "pinf" -> IF b.k = "ninf" THEN NaN ELSE PInf
      [] a.k = "ninf" -> IF b.k = "pinf" THEN NaN ELSE NInf
      [] b.k = "pinf" -> PInf
      [] b.k = "ninf" -> NInf
      [] OTHER -> FAddNum(a, b)

FSub(a, b) == FAdd(a, FNeg(b))

FSign(a) ==
    CASE a.k = "pinf" -> 1
      [] a.k = "ninf" -> 0 - 1
      [] a.k = "num" -> IF a.m = 0 THEN 0 ELSE Sgn(a.m)
      [] OTHER -> 0

FMul(a, b) ==
    CASE a.k = "nan" \/ b.k = "nan" -> NaN
      [] a.k # "num" \/ b.k # "num" ->
            IF FSign(a) * FSign(b) = 0 THEN NaN
            ELSE IF FSign(a) * FSign(b) > 0 THEN PInf ELSE NInf
      [] OTHER ->
            LET p == a.m * b.m
            IN  Round24(Sgn(p), Abs(p), a.x + b.x)

\* IEEE comparison ==: false whenever an operand is NaN
FEq(a, b) == a.k # "nan" /\ b.k # "nan" /\ a = b

\* IEEE comparison >= 0
FGeZero(a) == a.k = "pinf" \/ (a.k = "num" /\ a.m >= 0)

IsNaN(a) == a.k = "nan"

\* 2^e as a binary32 value, e any integer
Pow2F(e) == Num(1, e)

\* np.finfo(np.float32).min
FINFO_MIN == Num(0 - (2 ^ 24 - 1), 104)

\* NODATA_FLOAT = -16777216
NODATA_FLOAT == Num(0 - 1, 24)


(***************************************************************************)
(* Python lists are TLA+ sequences; At reads a 0-based index.              *)
(***************************************************************************)
At(list, idx) == list[idx + 1]

\* the order check left out
AlwaysSorted(l) == TRUE

RECURSIVE IsSorted(_)
\* sorted(l) == l
IsSorted(l) ==
    IF Len(l) <= 1 THEN TRUE
    ELSE l[1] <= l[2] /\ IsSorted(Tail(l))

\* a[idx] on a sequence of length n: the 0-based position read, or
\* IndexErr when Python raises IndexError
IndexErr == 0 - 2
PyIndex(n, idx) ==
    IF idx >= 0 THEN (IF idx < n THEN idx ELSE IndexErr)
    ELSE (IF idx + n >= 0 THEN idx + n ELSE IndexErr)

\* a[lo:hi] on a sequence of length n: the 0-based positions selected
PyClamp(n, b) ==
    IF b < 0 THEN (IF b + n < 0 THEN 0 ELSE b + n)
    ELSE (IF b > n THEN n ELSE b)
PySlice(n, lo, hi) == PyClamp(n, lo) .. (PyClamp(n, hi) - 1)

(***************************************************************************)
(* The lookup tables as parsed from the CSV inputs: land-cover codes 1     *)
(* and 2 are in the legend, every other raster value is not.               *)
(***************************************************************************)
lulc_to_Sb == (1 :> FromInt(10) @@ 2 :> FromInt(4))
lulc_to_Ss == (1 :> FromInt(4) @@ 2 :> FromInt(2))
lulc_to_L == (1 :> FromInt(1) @@ 2 :> FromInt(3))
lulc_to_Yb == (1 :> FromInt(2) @@ 2 :> Zero)
lulc_to_Ys == (1 :> Zero @@ 2 :> Zero)
lulc_to_Hb == (1 :> FromInt(5) @@ 2 :> FromInt(10))
lulc_to_Hs == (1 :> FromInt(7) @@ 2 :> FromInt(3))
lulc_trans_to_Db == (<<1, 2>> :> FromInt(1) @@ <<2, 1>> :> Num(1, 0 - 1))
lulc_trans_to_Ds == (<<1, 2>> :> FromInt(1) @@ <<2, 1>> :> FromInt(1))

\* values a raster pixel can hold, and the nodata value of a raster
PixelVals == {0, 1, 2, 9}
NodataVals == {0, 9}

\* price of the price table for a year, and the flat price
TablePrice(year) == FromInt(year - BaseYear + 1)
FlatPrice == FromInt(3)

\* (1 + rate * 0.01) ** t for the rates 0 and 100 (per cent)
Compound(rate, t) == IF rate = 100 THEN Pow2F(t) ELSE Pow2F(0)
Discount(rate, t) == IF rate = 100 THEN Pow2F(0 - t) ELSE Pow2F(0)

(***************************************************************************)
(* The args dictionaries explored.                                         *)
(***************************************************************************)
YearLists == UNION {[1..n -> Years] : n \in 0..MaxTrans}

EconArgs ==
    {[do_economic_analysis |-> FALSE, do_price_table |-> FALSE,
      interest_rate |-> 0, discount_rate |-> 0, price_table |-> {}]}
    \cup
    {[do_economic_analysis |-> TRUE, do_price_table |-> FALSE,
      interest_rate |-> 100, discount_rate |-> 0, price_table |-> {}]}
    \cup
    {[do_economic_analysis |-> TRUE, do_price_table |-> TRUE,
      interest_rate |-> 0, discount_rate |-> 100, price_table |-> Years \ miss]
        : miss \in {{}} \cup {{y} : y \in Years}}

ArgSets ==
    {[lulc_baseline_year |-> b, lulc_transition_years_list |-> l,
      analysis_year |-> a, econ |-> e]
        : b \in Years, l \in YearLists, a \in Years \cup {NoYear},
          e \in EconArgs}

(***************************************************************************)
(* State.                                                                  *)
(***************************************************************************)
VARIABLES
    args,             \* the args dictionary given to execute
    C_nodata,         \* nodata value of the baseline raster
    num_blocks,       \* blocks of the baseline raster
    pc,               \* "get_inputs", "iterblocks", "timeloop", "done", "failed"
    err,              \* the exception that ended the run, or "none"
    err_arg,          \* the year named by the exception message, or NoYear
    d,                \* the data dictionary returned by get_inputs
    File_Registry,    \* the output rasters created, by key
    io,               \* raster blocks read and written so far
    ndata_keys,       \* lookup dictionaries holding the injected ndata key
    block_idx,        \* index of the block being processed
    blocks_processed,
    C_list,           \* land-cover codes of the block, per snapshot
    P,                \* per-transition parameter arrays and the litter array
    S_biomass, S_soil, T,
    A_biomass, A_soil, E_biomass, E_soil, N_biomass, N_soil, V,
    R_biomass, R_soil,
    R_assigned,       \* per ledger, the timesteps at which it was assigned
    i,                \* loop variable of the transient analysis
    out,              \* contents of the output rasters, per block
    H_tables,         \* half-life columns of the transient table
    pixels,           \* land-cover codes of the raster blocks read so far
    runs_left,        \* further runs of execute on the same inputs
    first_run,        \* outcome of the previous run of execute
    block_order,      \* offsets of the blocks in the order the iterator yields
    now,              \* wall-clock time (time.time()), in seconds
    last_time,        \* time of the last progress message
    progress,         \* times at which a progress message was logged
    file,             \* recreation.file_hash: the file at file_path
    fast_hash,        \* the fast_hash argument of hashfile
    file_buffer_queue,\* the Queue shared by the two threads
    to_put,           \* what _read_file has still to put on the queue
    hasher,           \* what hasher.update has been given, in order
    thread,           \* position of the reader, the hasher and hashfile
    file_hash         \* the value hashfile returns

blockvars == <<C_list, P, S_biomass, S_soil, T, A_biomass, A_soil, E_biomass,
               E_soil, N_biomass, N_soil, V, R_biomass, R_soil, R_assigned,
               i>>
\* the input files and the calls of execute
\* recreation.file_hash
hashvars == <<file, fast_hash, file_buffer_queue, to_put, hasher, thread,
              file_hash>>
envvars == <<H_tables, pixels, runs_left, first_run, block_order, now,
             hashvars>>
\* progress logging of one run
logvars == <<last_time, progress>>
vars == <<args, C_nodata, num_blocks, pc, err, err_arg, d, File_Registry, io,
          ndata_keys, block_idx, blocks_processed, blockvars, out, envvars,
          logvars>>

Unwritten == [k |-> "unwritten", m |-> 0, x |-> 0]
NoArray == <<>>
NoParams == [Y_biomass |-> <<>>, Y_soil |-> <<>>, D_biomass |-> <<>>,
             D_soil |-> <<>>, H_biomass |-> <<>>, H_soil |-> <<>>,
             L |-> <<>>]
NoD == [transition_years |-> <<>>, snapshot_years |-> <<>>, timesteps |-> 0,
        transitions |-> 0, do_economic_analysis |-> FALSE, price_t |-> <<>>]
NoIO == [reads |-> 0, writes |-> 0]

InitRest ==
    /\ pc = "get_inputs"
    /\ err = "none"
    /\ err_arg = NoYear
    /\ d = NoD
    /\ File_Registry = {}
    /\ io = NoIO
    /\ ndata_keys = {}
    /\ block_idx = 0
    /\ blocks_processed = 0
    /\ C_list = <<>>
    /\ P = NoParams
    /\ S_biomass = NoArray /\ S_soil = NoArray /\ T = NoArray
    /\ A_biomass = NoArray /\ A_soil = NoArray
    /\ E_biomass = NoArray /\ E_soil = NoArray
    /\ N_biomass = NoArray /\ N_soil = NoArray /\ V = NoArray
    /\ R_biomass = NoArray /\ R_soil = NoArray
    /\ R_assigned = NoArray
    /\ i = 0
    /\ out = <<>>
    /\ last_time = 0
    /\ progress = <<>>

\* the half-life columns as parsed, and with other values in the table
HalfLives == [Hb |-> lulc_to_Hb, Hs |-> lulc_to_Hs]
OtherHalfLives == [Hb |-> (1 :> FromInt(1) @@ 2 :> FromInt(1)),
                   Hs |-> (1 :> FromInt(2) @@ 2 :> FromInt(1))]

NoRun == [pc |-> "none", err |-> "none", out |-> <<>>]

\* hashfile is not called
NoHash ==
    /\ file = [blocks |-> <<>>, basename |-> "f"]
    /\ fast_hash = FALSE
    /\ file_buffer_queue = <<>>
    /\ to_put = <<>>
    /\ hasher = <<>>
    /\ thread = [reader |-> "idle", hasher |-> "idle", main |-> "idle"]
    /\ file_hash = <<>>

\* geoprocess.iterblocks yields the blocks in the order of their offsets
IterOrder(n) == [k \in 1..n |-> k - 1]

\* one run of execute on a raster of one block
InitEnv ==
    /\ H_tables = HalfLives
    /\ pixels = <<>>
    /\ runs_left = 0
    /\ first_run = NoRun
    /\ block_order = IterOrder(1)
    /\ now = 0
    /\ NoHash

Init ==
    /\ args \in ArgSets
    /\ C_nodata \in NodataVals
    /\ num_blocks = 1
    /\ InitRest
    /\ InitEnv

(***************************************************************************)
(* get_inputs and its helpers.                                             *)
(***************************************************************************)
RECURSIVE FirstMissingShort(_, _, _)
\* the years start_year .. end_year - 1 only: xrange(start_year, end_year)
FirstMissingShort(price_table, year, end_year) ==
    IF year >= end_year THEN NoYear
    ELSE IF year \notin price_table THEN year
    ELSE FirstMissingShort(price_table, year + 1, end_year)

RECURSIVE FirstMissing(_, _, _)
\* _get_price_table: the first year of start_year .. end_year without a
\* price (the KeyError of the list comprehension), or NoYear
FirstMissing(price_table, year, end_year) ==
    IF year > end_year THEN NoYear
    ELSE IF year \notin price_table THEN year
    ELSE FirstMissing(price_table, year + 1, end_year)

\* _get_price_table followed by the discounting of get_inputs
_get_price_table(discount_rate, start_year, end_year) ==
    [t \in 1..(end_year - start_year + 1) |->
        FMul(TablePrice(start_year + t - 1), Discount(discount_rate, t - 1))]

\* price * (1 + interest_rate) ** arange(0, timesteps + 1), discounted
FlatPriceT(interest_rate, discount_rate, timesteps) ==
    [t \in 1..(timesteps + 1) |->
        FMul(FMul(Compound(interest_rate, t - 1), FlatPrice),
             Discount(discount_rate, t - 1))]

\* the raster names _build_file_registry creates
_build_file_registry(snapshot_years, do_economic_analysis) ==
    {<<"T_s_rasters", n>> : n \in 0..(Len(snapshot_years) - 1)}
    \cup {<<key, n>> : key \in {"A_r_rasters", "E_r_rasters", "N_r_rasters"},
                       n \in 0..(Len(snapshot_years) - 2)}
    \cup {<<"N_total_raster", 0>>}
    \cup (IF do_economic_analysis THEN {<<"NPV_raster", 0>>} ELSE {})

Fail(exception, year) ==
    /\ pc' = "failed"
    /\ err' = exception
    /\ err_arg' = year

get_inputs ==
    /\ pc = "get_inputs"
    /\ LET transition_years == args.lulc_transition_years_list
           transitions == Len(transition_years) + 1
           base_years == <<args.lulc_baseline_year>> \o transition_years
           has_analysis == args.analysis_year # NoYear
           snapshot_years ==
               IF has_analysis THEN Append(base_years, args.analysis_year)
               ELSE base_years
           timesteps == snapshot_years[Len(snapshot_years)] - snapshot_years[1]
           e == args.econ
           missing ==
               IF e.do_economic_analysis /\ e.do_price_table
               THEN FirstMissing(e.price_table, snapshot_years[1],
                                 snapshot_years[Len(snapshot_years)])
               ELSE NoYear
           price_t ==
               IF ~e.do_economic_analysis THEN <<>>
               ELSE IF e.do_price_table
                    THEN _get_price_table(e.discount_rate, snapshot_years[1],
                                          snapshot_years[Len(snapshot_years)])
               ELSE FlatPriceT(e.interest_rate, e.discount_rate, timesteps)
       IN  IF ~IsSorted(transition_years)
           THEN /\ Fail("ValueError", NoYear)
                /\ UNCHANGED <<d, File_Registry, out>>
           ELSE IF has_analysis
                   /\ args.analysis_year <= base_years[Len(base_years)]
           THEN /\ Fail("ValueError", NoYear)
                /\ UNCHANGED <<d, File_Registry, out>>
           ELSE IF missing # NoYear
           THEN /\ Fail("KeyError", missing)
                /\ UNCHANGED <<d, File_Registry, out>>
           ELSE /\ d' = [transition_years |-> transition_years,
                         snapshot_years |-> snapshot_years,
                         timesteps |-> timesteps,
                         transitions |-> transitions,
                         do_economic_analysis |-> e.do_economic_analysis,
                         price_t |-> price_t]
                /\ File_Registry' =
                       _build_file_registry(snapshot_years,
                                            e.do_economic_analysis)
                /\ out' = [r \in File_Registry' |->
                              [b \in 0..(num_blocks - 1) |-> Unwritten]]
                /\ pc' = "iterblocks"
                /\ UNCHANGED <<err, err_arg>>
    \* last_time = time.time(), once get_inputs has returned
    /\ last_time' = IF pc' = "iterblocks" THEN now ELSE last_time
    /\ UNCHANGED <<args, C_nodata, num_blocks, io, ndata_keys, block_idx,
                   blocks_processed, blockvars, envvars, progress>>

(***************************************************************************)
(* Reclassification.                                                       *)
(***************************************************************************)
\* "if nodata_mask and ...": 0 and None are false
Truthy(nodata_mask) == nodata_mask # 0

\* reclass(array, d, out_dtype=np.float32, nodata_mask=C_nodata) for one
\* element: a value without a key becomes ndata = finfo(float32).min, which
\* np.digitize maps to d[ndata] = ndata; the nodata elements of the input
\* are then set to NaN when nodata_mask is true
reclass(value, lookup, nodata_mask) ==
    LET ndata == FINFO_MIN
        reclass_array == IF value \in DOMAIN lookup THEN lookup[value]
                         ELSE ndata
    IN  IF Truthy(nodata_mask)
           /\ (value = nodata_mask \/ FEq(FromInt(value), ndata))
        THEN NaN
        ELSE reclass_array

\* a later call treats an element without a key as nodata
reclass_stale(value, lookup, nodata_mask) ==
    IF value \in DOMAIN lookup /\ ~(Truthy(nodata_mask) /\ value = nodata_mask)
    THEN lookup[value]
    ELSE NaN

\* reclass on a dictionary that already holds the key ndata (d[ndata] = ndata
\* of an earlier call): ndata itself has a key, any other value without a key
\* still becomes ndata, which the dictionary maps to ndata
reclass_again(value, lookup, nodata_mask) ==
    LET ndata == FINFO_MIN
        has_map == value \in DOMAIN lookup \/ FEq(FromInt(value), ndata)
        a_ravel == IF has_map THEN FromInt(value) ELSE ndata
        reclass_array == IF FEq(a_ravel, ndata) THEN ndata
                         ELSE lookup[value]
    IN  IF Truthy(nodata_mask)
           /\ (value = nodata_mask \/ FEq(FromInt(value), ndata))
        THEN NaN
        ELSE reclass_array

\* the n-th call of a block on the dictionary of that name
Reclassify(name, n, value, lookup) ==
    IF name \in ndata_keys \/ n > 0
    THEN reclass_again(value, lookup, C_nodata)
    ELSE reclass(value, lookup, C_nodata)

\* an element of a masked array that is masked (np.ma.masked)
Masked == [k |-> "masked", m |-> 0, x |-> 0]

\* reclass_transition for one element: the pair's value, np.ma.masked for
\* an unmapped pair, NaN (unmasked) where a_prev is the nodata value and
\* nodata_mask is true
reclass_transition(a_prev, a_next, trans_dict, nodata_mask) ==
    IF Truthy(nodata_mask) /\ a_prev = nodata_mask THEN NaN
    ELSE IF <<a_prev, a_next>> \in DOMAIN trans_dict
         THEN trans_dict[<<a_prev, a_next>>]
    ELSE Masked

\* D_biomass[i] = <masked array>: the ndarray takes the data of the masked
\* array, and a masked element still holds the 0 of np.zeros
SetItem(value) == IF value = Masked THEN Zero ELSE value

\* the lookup dictionaries reclass is called with (d[ndata] = ndata)
ReclassDicts == {"lulc_to_Sb", "lulc_to_Ss", "lulc_to_L", "lulc_to_Yb",
                 "lulc_to_Ys", "lulc_to_Hb", "lulc_to_Hs"}

(***************************************************************************)
(* Timeline helpers.                                                       *)
(***************************************************************************)
NoneIdx == 0 - 1

RECURSIVE TransitionScan(_, _, _, _)
TransitionScan(snapshot_years, transitions, timestep, n) ==
    IF n >= transitions THEN NoneIdx
    ELSE IF n + 1 >= Len(snapshot_years) THEN IndexErr
    ELSE IF timestep < At(snapshot_years, n + 1) - At(snapshot_years, 0)
         THEN n
    ELSE TransitionScan(snapshot_years, transitions, timestep, n + 1)

timestep_to_transition_idx(snapshot_years, transitions, timestep) ==
    TransitionScan(snapshot_years, transitions, timestep, 0)

s_to_timestep(snapshot_years, snapshot_idx) ==
    At(snapshot_years, snapshot_idx) - At(snapshot_years, 0)

\* every year of a transition other than the first taken for a boundary
is_transition_year_every(snapshot_years, transitions, timestep) ==
    LET cur == timestep_to_transition_idx(snapshot_years, transitions,
                                          timestep)
    IN  cur # NoneIdx /\ cur # 0

\* the boundary looked for one timestep late: t + 1 against t
is_transition_year_late(snapshot_years, transitions, timestep) ==
    LET cur == timestep_to_transition_idx(snapshot_years, transitions,
                                          timestep + 1)
        prev == timestep_to_transition_idx(snapshot_years, transitions,
                                           timestep)
    IN  cur # prev /\ cur # NoneIdx /\ cur # 0

is_transition_year(snapshot_years, transitions, timestep) ==
    LET cur == timestep_to_transition_idx(snapshot_years, transitions,
                                          timestep)
        prev == timestep_to_transition_idx(snapshot_years, transitions,
                                           timestep - 1)
    IN  cur # prev /\ cur # NoneIdx /\ cur # 0

(***************************************************************************)
(* The block loop of execute: next block, array set-up and seeding.        *)
(***************************************************************************)
Zeros(n) == [t \in 0..(n - 1) |-> Zero]

\* the point before the transient analysis, as a timestep
BeforeLoop == 0 - 1

\* the whole stock counted as disturbed, whatever the disturbance fraction
DisturbedStockAll(D, S) == S

\* total disturbed carbon of a transition
DisturbedStock(D, S) == FMul(D, S)

\* the source cover read where the destination cover is meant
NextCoverSame(Clist, n) == At(Clist, n)

\* C_list[i+1]: the destination cover of transition i
NextCover(Clist, n) == At(Clist, n + 1)

SetupBlock(C_prior, C_r) ==
    LET timesteps == d.timesteps
        transitions == d.transitions
        Clist == IF Len(C_r) > 0
                 THEN <<C_prior>> \o C_r \o <<C_r[Len(C_r)]>>
                 ELSE <<C_prior, C_prior>>
        D_b == [n \in 0..(transitions - 1) |->
                   SetItem(reclass_transition(At(Clist, n),
                                              NextCover(Clist, n),
                                              lulc_trans_to_Db, C_nodata))]
        D_s == [n \in 0..(transitions - 1) |->
                   SetItem(reclass_transition(At(Clist, n),
                                              NextCover(Clist, n),
                                              lulc_trans_to_Ds, C_nodata))]
        S_b0 == Reclassify("lulc_to_Sb", 0, C_prior, lulc_to_Sb)
        S_s0 == Reclassify("lulc_to_Ss", 0, C_prior, lulc_to_Ss)
    IN  /\ C_list' = Clist
        /\ P' = [Y_biomass |-> [n \in 0..(transitions - 1) |->
                     Reclassify("lulc_to_Yb", n, NextCover(Clist, n),
                                lulc_to_Yb)],
                 Y_soil |-> [n \in 0..(transitions - 1) |->
                     Reclassify("lulc_to_Ys", n, NextCover(Clist, n),
                                lulc_to_Ys)],
                 D_biomass |-> D_b,
                 D_soil |-> D_s,
                 H_biomass |-> [n \in 0..(transitions - 1) |->
                     Reclassify("lulc_to_Hb", n, At(Clist, n),
                                H_tables.Hb)],
                 H_soil |-> [n \in 0..(transitions - 1) |->
                     Reclassify("lulc_to_Hs", n, At(Clist, n),
                                H_tables.Hs)],
                 L |-> [n \in 0..(Len(Clist) - 1) |->
                     Reclassify("lulc_to_L", n, At(Clist, n),
                                lulc_to_L)]]
        /\ S_biomass' = [Zeros(timesteps + 1) EXCEPT ![0] = S_b0]
        /\ S_soil' = [Zeros(timesteps + 1) EXCEPT ![0] = S_s0]
        /\ T' = [Zeros(timesteps + 1) EXCEPT ![0] = FAdd(S_b0, S_s0)]
        /\ A_biomass' = Zeros(timesteps) /\ A_soil' = Zeros(timesteps)
        /\ E_biomass' = Zeros(timesteps) /\ E_soil' = Zeros(timesteps)
        /\ N_biomass' = Zeros(timesteps) /\ N_soil' = Zeros(timesteps)
        /\ V' = Zeros(timesteps)
        /\ R_biomass' = [Zeros(transitions) EXCEPT
                             ![0] = DisturbedStock(D_b[0], S_b0)]
        /\ R_soil' = [Zeros(transitions) EXCEPT
                          ![0] = DisturbedStock(D_s[0], S_s0)]
        /\ R_assigned' = [n \in 0..(transitions - 1) |->
                              IF n = 0 THEN {BeforeLoop} ELSE {}]
        /\ i' = 0
        /\ ndata_keys' = ReclassDicts

\* seconds between two progress messages
ProgressInterval == 5

\* offset_dict of the block the iterator yields as number idx
OffsetFirst(order, idx) == order[1]
Offset(order, idx) == order[idx + 1]

iterblocks ==
    /\ pc = "iterblocks"
    /\ IF block_idx >= num_blocks
       THEN /\ pc' = "done"
            /\ UNCHANGED <<err, err_arg, io, ndata_keys, blocks_processed,
                           blockvars, pixels, logvars>>
       ELSE LET offset == Offset(block_order, block_idx)
                current_time == now
                emit == \/ current_time - last_time >= ProgressInterval
                        \/ blocks_processed + 1 \in {0, num_blocks - 1}
            IN
            /\ blocks_processed' = blocks_processed + 1
            /\ progress' = IF emit
                           THEN Append(progress,
                                       [time |-> current_time,
                                        blocks |-> blocks_processed + 1])
                           ELSE progress
            /\ last_time' = IF emit THEN current_time ELSE last_time
            /\ IF d.timesteps < 0
               THEN \* np.zeros: negative dimensions are not allowed
                    /\ Fail("ValueError", NoYear)
                    /\ io' = [io EXCEPT !.reads = @ + 1]
                    /\ UNCHANGED <<ndata_keys, blockvars, pixels>>
               ELSE \E C_prior \in PixelVals :
                    \E C_r \in [1..Len(d.transition_years) -> PixelVals] :
                      \* a block read again holds what it held before
                      /\ offset \in DOMAIN pixels =>
                             pixels[offset] = <<C_prior>> \o C_r
                      /\ pixels' = (offset :> (<<C_prior>> \o C_r))
                                       @@ pixels
                      /\ SetupBlock(C_prior, C_r)
                      /\ io' = [io EXCEPT !.reads = @ + 1 + Len(C_r)]
                      /\ pc' = "timeloop"
                      /\ UNCHANGED <<err, err_arg>>
    /\ UNCHANGED <<args, C_nodata, num_blocks, d, File_Registry, block_idx,
                   out, H_tables, runs_left, first_run, block_order, now,
                   hashvars>>

(***************************************************************************)
(* One iteration of the transient analysis (for i in xrange(0, timesteps)).*)
(***************************************************************************)
\* a decay that follows the half-life column: base 0.5 for the column as
\* parsed, base 0.25 for the other one
DecayWeightOfHalfLife(n) ==
    IF H_tables = [Hb |-> lulc_to_Hb, Hs |-> lulc_to_Hs]
    THEN FSub(Pow2F(0 - n), Pow2F(0 - (n + 1)))
    ELSE FSub(Pow2F(0 - 2 * n), Pow2F(0 - 2 * (n + 1)))

\* 0.5**n - 0.5**(n+1)
DecayWeight(n) == FSub(Pow2F(0 - n), Pow2F(0 - (n + 1)))

\* offset of the ledger of transition_idx in the emission loop
EmissionOffset(transition_years, transition_idx) ==
    At(transition_years, transition_idx) - At(transition_years, 0)

RECURSIVE Emissions(_, _, _, _, _, _)
\* the emission loop: for transition_idx in xrange(0, last + 1), left when
\* d['transition_years'][transition_idx] raises IndexError
Emissions(acc, R, transition_years, transition_idx, last, timestep) ==
    IF transition_idx > last \/ transition_idx >= Len(transition_years)
    THEN acc
    ELSE LET j == EmissionOffset(transition_years, transition_idx)
         IN  Emissions(FAdd(acc, FMul(R[transition_idx],
                                      DecayWeight(timestep - j))),
                       R, transition_years, transition_idx + 1, last,
                       timestep)

\* the previous stock lost: only the net sequestration is kept
NextStockLost(S, N) == N

NextStock(S, N) == FAdd(S, N)

\* the soil term left out of the valuation
NetValueBiomass(N_b, N_s0, price) == FMul(N_b, price)

\* V[i] = (N_biomass[i] + N_soil[0]) * d['price_t'][i]
NetValue(N_b, N_s0, price) == FMul(FAdd(N_b, N_s0), price)

timestep ==
    /\ pc = "timeloop"
    /\ i < d.timesteps
    /\ LET transition_idx ==
               timestep_to_transition_idx(d.snapshot_years, d.transitions, i)
           is_ty == is_transition_year(d.snapshot_years, d.transitions, i)
           R_b == IF is_ty
                  THEN [R_biomass EXCEPT ![transition_idx] =
                           DisturbedStock(P.D_biomass[transition_idx],
                                          S_biomass[i])]
                  ELSE R_biomass
           R_s == IF is_ty
                  THEN [R_soil EXCEPT ![transition_idx] =
                           DisturbedStock(P.D_soil[transition_idx],
                                          S_soil[i])]
                  ELSE R_soil
           A_b == P.Y_biomass[transition_idx]
           A_s == P.Y_soil[transition_idx]
           E_b == Emissions(E_biomass[i], R_b, d.transition_years, 0,
                            transition_idx, i)
           E_s == Emissions(E_soil[i], R_s, d.transition_years, 0,
                            transition_idx, i)
           N_b == FSub(A_b, E_b)
           N_s == FSub(A_s, E_s)
           S_b == NextStock(S_biomass[i], N_b)
           S_s == NextStock(S_soil[i], N_s)
           N_s0 == IF i = 0 THEN N_s ELSE N_soil[0]
       IN  /\ R_biomass' = R_b
           /\ R_soil' = R_s
           /\ R_assigned' = IF is_ty
                             THEN [R_assigned EXCEPT
                                      ![transition_idx] = @ \cup {i}]
                             ELSE R_assigned
           /\ A_biomass' = [A_biomass EXCEPT ![i] = A_b]
           /\ A_soil' = [A_soil EXCEPT ![i] = A_s]
           /\ E_biomass' = [E_biomass EXCEPT ![i] = E_b]
           /\ E_soil' = [E_soil EXCEPT ![i] = E_s]
           /\ N_biomass' = [N_biomass EXCEPT ![i] = N_b]
           /\ N_soil' = [N_soil EXCEPT ![i] = N_s]
           /\ S_biomass' = [S_biomass EXCEPT ![i + 1] = S_b]
           /\ S_soil' = [S_soil EXCEPT ![i + 1] = S_s]
           /\ T' = [T EXCEPT ![i + 1] = FAdd(S_b, S_s)]
           /\ V' = IF d.do_economic_analysis
                   THEN [V EXCEPT ![i] = NetValue(N_b, N_s0,
                                                  At(d.price_t, i))]
                   ELSE V
    /\ i' = i + 1
    /\ UNCHANGED <<args, C_nodata, num_blocks, pc, err, err_arg, d,
                   File_Registry, io, ndata_keys, block_idx,
                   blocks_processed, C_list, P, out, envvars, logvars>>

(***************************************************************************)
(* Snapshot aggregation and the writes of one block.                       *)
(***************************************************************************)
RECURSIVE SumSlice(_, _, _, _)
\* sum(X[lo:hi]) with lo, hi already clamped: 0 + X[lo] + ... + X[hi-1]
SumSlice(acc, X, lo, hi) ==
    IF lo >= hi THEN acc
    ELSE SumSlice(FAdd(acc, X[lo]), X, lo + 1, hi)

\* sum(X[s_to_timestep(i):s_to_timestep(i+1)])
PeriodSum(X, snapshot_years, n) ==
    LET len == d.timesteps
    IN  SumSlice(Zero, X, PyClamp(len, s_to_timestep(snapshot_years, n)),
                 PyClamp(len, s_to_timestep(snapshot_years, n + 1)))

\* the slice of period n is empty: sum() returns the int 0
EmptyPeriod(snapshot_years, n) ==
    PySlice(d.timesteps, s_to_timestep(snapshot_years, n),
            s_to_timestep(snapshot_years, n + 1)) = {}

\* write_to_raster: array[array == np.nan] = NODATA_FLOAT, then WriteArray
write_to_raster(array) ==
    IF FEq(array, NaN) THEN NODATA_FLOAT ELSE array

Pairwise(X, Y) == [t \in DOMAIN X |-> FAdd(X[t], Y[t])]

write_outputs ==
    /\ pc = "timeloop"
    /\ i >= d.timesteps
    /\ LET s_years == d.snapshot_years
           num_snapshots == Len(s_years)
           A == Pairwise(A_biomass, A_soil)
           E == Pairwise(E_biomass, E_soil)
           N == Pairwise(N_biomass, N_soil)
           periods == 0..(num_snapshots - 2)
           T_pos(n) == PyIndex(d.timesteps + 1, s_to_timestep(s_years, n))
           T_bad == \E n \in 0..(num_snapshots - 1) : T_pos(n) = IndexErr
           empties == {n \in periods : EmptyPeriod(s_years, n)}
           first_empty == IF empties = {} THEN num_snapshots
                          ELSE CHOOSE n \in empties :
                                   \A n2 \in empties : n <= n2
           value(r) ==
               CASE r[1] = "T_s_rasters" ->
                        FAdd(T[T_pos(r[2])], P.L[r[2]])
                 [] r[1] = "A_r_rasters" -> PeriodSum(A, s_years, r[2])
                 [] r[1] = "E_r_rasters" -> PeriodSum(E, s_years, r[2])
                 [] r[1] = "N_r_rasters" -> PeriodSum(N, s_years, r[2])
                 [] r[1] = "N_total_raster" ->
                        SumSlice(Zero, N, 0, d.timesteps)
                 [] OTHER -> SumSlice(Zero, V, 0, d.timesteps)
           \* rasters written before an int 0 reaches write_to_raster
           written == IF empties = {} THEN File_Registry
                      ELSE {r \in File_Registry :
                               \/ r[1] = "T_s_rasters"
                               \/ r[1] = "A_r_rasters" /\ r[2] < first_empty}
           offset == Offset(block_order, block_idx)
       IN  IF T_bad
           THEN /\ Fail("IndexError", NoYear)
                /\ UNCHANGED <<io, out, block_idx>>
           ELSE /\ out' = [r \in File_Registry |->
                             IF r \in written
                             THEN [out[r] EXCEPT ![offset] =
                                      write_to_raster(value(r))]
                             ELSE out[r]]
                /\ io' = [io EXCEPT !.writes = @ + Cardinality(written)]
                /\ IF empties = {}
                   THEN /\ block_idx' = block_idx + 1
                        /\ pc' = "iterblocks"
                        /\ UNCHANGED <<err, err_arg>>
                   ELSE \* 'int' object has no attribute 'dtype'
                        /\ Fail("AttributeError", NoYear)
                        /\ UNCHANGED block_idx
    /\ UNCHANGED <<args, C_nodata, num_blocks, d, File_Registry, ndata_keys,
                   blocks_processed, blockvars, envvars, last_time, progress>>

Next == get_inputs \/ iterblocks \/ timestep \/ write_outputs

Spec == Init /\ [][Next]_vars

(***************************************************************************)
(* Two runs of execute on inputs that differ only in the half-life columns *)
(* of the transient table: the second run starts from a fresh call, reads  *)
(* the same rasters, and the outcome of the first is kept for comparison.  *)
(***************************************************************************)
\* a fresh call of execute on the same arguments and rasters
NewRun ==
    /\ first_run' = [pc |-> pc, err |-> err, out |-> out]
    /\ pc' = "get_inputs"
    /\ err' = "none"
    /\ err_arg' = NoYear
    /\ d' = NoD
    /\ File_Registry' = {}
    /\ io' = NoIO
    /\ ndata_keys' = {}
    /\ block_idx' = 0
    /\ blocks_processed' = 0
    /\ C_list' = <<>>
    /\ P' = NoParams
    /\ S_biomass' = NoArray /\ S_soil' = NoArray /\ T' = NoArray
    /\ A_biomass' = NoArray /\ A_soil' = NoArray
    /\ E_biomass' = NoArray /\ E_soil' = NoArray
    /\ N_biomass' = NoArray /\ N_soil' = NoArray /\ V' = NoArray
    /\ R_biomass' = NoArray /\ R_soil' = NoArray
    /\ R_assigned' = NoArray
    /\ i' = 0
    /\ out' = <<>>
    /\ last_time' = 0
    /\ progress' = <<>>
    /\ UNCHANGED <<args, C_nodata, num_blocks, pixels, now, hashvars>>

execute_again ==
    /\ pc \in {"done", "failed"}
    /\ runs_left > 0
    /\ runs_left' = runs_left - 1
    /\ H_tables' = OtherHalfLives
    /\ NewRun
    /\ UNCHANGED block_order

\* the orders in which an iterator can yield n blocks
Orders(n) == {o \in [1..n -> 0..(n - 1)] :
                 \A j, k \in 1..n : o[j] = o[k] => j = k}

\* a second run of execute that meets the blocks in another order
execute_reordered ==
    /\ pc \in {"done", "failed"}
    /\ runs_left > 0
    /\ runs_left' = runs_left - 1
    /\ block_order' \in Orders(num_blocks) \ {block_order}
    /\ NewRun
    /\ UNCHANGED H_tables

\* time passes
tick ==
    /\ pc \in {"get_inputs", "iterblocks", "timeloop"}
    /\ now < MaxTime
    /\ now' = now + 1
    /\ UNCHANGED <<args, C_nodata, num_blocks, pc, err, err_arg, d,
                   File_Registry, io, ndata_keys, block_idx,
                   blocks_processed, blockvars, out, H_tables, pixels,
                   runs_left, first_run, block_order, logvars, hashvars>>

InitHalfLife ==
    /\ args \in {a \in ArgSets : ~a.econ.do_economic_analysis}
    /\ C_nodata \in NodataVals
    /\ num_blocks = 1
    /\ InitRest
    /\ H_tables = HalfLives
    /\ pixels = <<>>
    /\ runs_left = 1
    /\ first_run = NoRun
    /\ block_order = IterOrder(1)
    /\ now = 0
    /\ NoHash

NextHalfLife == get_inputs \/ iterblocks \/ timestep \/ write_outputs
                    \/ execute_again

SpecHalfLife == InitHalfLife /\ [][NextHalfLife]_vars

(***************************************************************************)
(* Rasters of several blocks: execute runs on them, and runs once more     *)
(* with the blocks in another order.                                       *)
(***************************************************************************)
InitBlocks ==
    /\ args \in {a \in ArgSets : ~a.econ.do_economic_analysis}
    /\ C_nodata \in NodataVals
    /\ num_blocks \in 1..MaxBlocks
    /\ Len(args.lulc_transition_years_list) + num_blocks <= MaxBlocks
    /\ InitRest
    /\ H_tables = HalfLives
    /\ pixels = <<>>
    /\ runs_left = 1
    /\ first_run = NoRun
    /\ block_order = IterOrder(num_blocks)
    /\ now = 0
    /\ NoHash

NextBlocks == get_inputs \/ iterblocks \/ timestep \/ write_outputs
                  \/ execute_reordered

SpecBlocks == InitBlocks /\ [][NextBlocks]_vars

(***************************************************************************)
(* One run of execute on a raster of several blocks of one land cover,     *)
(* with the wall clock advancing between the steps.                        *)
(***************************************************************************)
InitProgress ==
    /\ args \in {a \in ArgSets :
                   /\ ~a.econ.do_economic_analysis
                   /\ a.lulc_baseline_year = BaseYear
                   /\ a.lulc_transition_years_list = <<BaseYear + 1>>
                   /\ a.analysis_year = NoYear}
    /\ C_nodata = 0
    /\ num_blocks \in 1..MaxProgressBlocks
    /\ InitRest
    /\ H_tables = HalfLives
    /\ pixels = [b \in 0..(num_blocks - 1) |-> <<1, 2>>]
    /\ runs_left = 0
    /\ first_run = NoRun
    /\ block_order = IterOrder(num_blocks)
    /\ now = 0
    /\ NoHash

NextProgress == get_inputs \/ iterblocks \/ timestep \/ write_outputs
                    \/ tick

SpecProgress == InitProgress /\ [][NextProgress]_vars

(***************************************************************************)
(* recreation.file_hash: hashfile starts a thread that reads the file and  *)
(* one that hashes what the first puts on a bounded queue, joins both and  *)
(* takes the result from the same queue.  A queue item is the sequence of  *)
(* the strings it is made of.                                              *)
(***************************************************************************)
carbonvars == <<args, C_nodata, num_blocks, pc, err, err_arg, d,
                File_Registry, io, ndata_keys, block_idx, blocks_processed,
                blockvars, out, H_tables, pixels, runs_left, first_run,
                block_order, now, logvars>>

\* Queue.Queue(100)
QueueSize == 100

\* what file.read(blocksize) can return, and the names of the file
Buffers == {"a", "STOP"}
Basenames == {"f", "STOP"}

\* a file of one buffer b followed by LongFileBlocks buffers "a"
LongFile(b) == <<b>> \o [k \in 1..LongFileBlocks |-> "a"]

Files ==
    [blocks : UNION {[1..n -> Buffers] : n \in 0..MaxFileBlocks}
                \cup {LongFile(b) : b \in Buffers},
     basename : Basenames]

\* the sentinel 'STOP'
STOP == <<"STOP">>

\* str(file_size) and time.ctime(mtime): never the text of the sentinel
SizeStr(n) == <<"size">> \o [k \in 1..n |-> "1"]
CTime == <<"mtime">>

\* what _read_file puts on the queue before the sentinel
FileItems(f, fast) ==
    IF fast
    THEN LET buf == IF f.blocks = <<>> THEN "" ELSE f.blocks[1]
             last == IF Len(f.blocks) > 1 THEN f.blocks[Len(f.blocks)]
                     ELSE buf
         IN  <<<<buf>>, <<last>>, <<f.basename>>, SizeStr(Len(f.blocks)),
               CTime>>
    ELSE [k \in 1..Len(f.blocks) |-> <<f.blocks[k]>>]

RECURSIVE Flatten(_)
\* the text hasher.update has received after the items of a sequence
Flatten(items) ==
    IF items = <<>> THEN <<>> ELSE Head(items) \o Flatten(Tail(items))

\* hasher.hexdigest()[:16] after the updates text
hexdigest(text) == <<"sha1">> \o text

\* put() blocks while the queue holds QueueSize items
HasRoom(queue) == Len(queue) < QueueSize

\* iter(file_buffer_queue.get, "STOP") ends at an item equal to 'STOP'
IsSentinel(item) == item = STOP

_read_file ==
    /\ thread.reader = "running"
    /\ HasRoom(file_buffer_queue)
    /\ file_buffer_queue' = Append(file_buffer_queue, Head(to_put))
    /\ to_put' = Tail(to_put)
    /\ thread' = [thread EXCEPT
                     !.reader = IF Tail(to_put) = <<>> THEN "done" ELSE @]
    /\ UNCHANGED <<carbonvars, file, fast_hash, hasher, file_hash>>

\* one turn of the loop of _hash_blocks
_hash_blocks ==
    /\ thread.hasher = "get"
    /\ file_buffer_queue # <<>>
    /\ file_buffer_queue' = Tail(file_buffer_queue)
    /\ IF IsSentinel(Head(file_buffer_queue))
       THEN /\ thread' = [thread EXCEPT !.hasher = "put"]
            /\ UNCHANGED hasher
       ELSE /\ hasher' = hasher \o Head(file_buffer_queue)
            /\ UNCHANGED thread
    /\ UNCHANGED <<carbonvars, file, fast_hash, to_put, file_hash>>

\* file_buffer_queue.put(hasher.hexdigest()[:16])
put_hexdigest ==
    /\ thread.hasher = "put"
    /\ HasRoom(file_buffer_queue)
    /\ file_buffer_queue' = Append(file_buffer_queue, hexdigest(hasher))
    /\ thread' = [thread EXCEPT !.hasher = "done"]
    /\ UNCHANGED <<carbonvars, file, fast_hash, to_put, hasher, file_hash>>

\* both joins have returned: file_hash = file_buffer_queue.get()
hashfile ==
    /\ thread.main = "join"
    /\ thread.reader = "done"
    /\ thread.hasher = "done"
    /\ file_buffer_queue # <<>>
    /\ file_hash' = IF fast_hash
                    THEN Append(Head(file_buffer_queue), "_fast_hash")
                    ELSE Head(file_buffer_queue)
    /\ file_buffer_queue' = Tail(file_buffer_queue)
    /\ thread' = [thread EXCEPT !.main = "returned"]
    /\ UNCHANGED <<carbonvars, file, fast_hash, to_put, hasher>>

\* hashfile has created the queue and started both threads
InitHash ==
    /\ args = CHOOSE a \in ArgSets : TRUE
    /\ C_nodata = 0
    /\ num_blocks = 1
    /\ InitRest
    /\ H_tables = HalfLives
    /\ pixels = <<>>
    /\ runs_left = 0
    /\ first_run = NoRun
    /\ block_order = IterOrder(1)
    /\ now = 0
    /\ file \in Files
    /\ fast_hash \in BOOLEAN
    /\ file_buffer_queue = <<>>
    /\ to_put = Append(FileItems(file, fast_hash), STOP)
    /\ hasher = <<>>
    /\ thread = [reader |-> "running", hasher |-> "get", main |-> "join"]
    /\ file_hash = <<>>

NextHash == _read_file \/ _hash_blocks \/ put_hexdigest \/ hashfile

SpecHash == InitHash /\ [][NextHash]_vars

(***************************************************************************)
(* Properties.                                                             *)
(***************************************************************************)
\* a block has been read and its arrays set up
BlockSetUp == C_list # <<>>

\* every land-cover code of the block is in the legend
AllMapped == \A n \in 1..Len(C_list) : C_list[n] \in DOMAIN lulc_to_Sb

RECURSIVE StrictlyIncreasing(_)
StrictlyIncreasing(l) ==
    IF Len(l) <= 1 THEN TRUE
    ELSE l[1] < l[2] /\ StrictlyIncreasing(Tail(l))

ZeroDisturbanceAndAccumulation ==
    \A n \in 0..(d.transitions - 1) :
        /\ FEq(P.D_biomass[n], Zero) /\ FEq(P.D_soil[n], Zero)
        /\ FEq(P.Y_biomass[n], Zero) /\ FEq(P.Y_soil[n], Zero)

\* C1: for a pixel whose disturbance fractions and yearly accumulation
\* rates are zero in every transition, the biomass stock and the soil stock
\* of every timestep computed so far equal the stock of timestep 0.
StockConservation ==
    (BlockSetUp /\ ZeroDisturbanceAndAccumulation) =>
        \A t \in 0..i : /\ FEq(S_biomass[t], S_biomass[0])
                        /\ FEq(S_soil[t], S_soil[0])

StockConservationWitness ==
    /\ pc = "done"
    /\ ZeroDisturbanceAndAccumulation
    /\ Len(d.transition_years) = 2
    /\ d.timesteps >= 2
    /\ S_biomass[d.timesteps] = FromInt(4)
    /\ S_soil[d.timesteps] = FromInt(2)

BaselineOnlyRun ==
    /\ Len(args.lulc_transition_years_list) = 0
    /\ args.analysis_year # NoYear
    /\ args.analysis_year > args.lulc_baseline_year

StockRasters == {r \in File_Registry : r[1] = "T_s_rasters"}

\* C5: a run with no transition and an analysis year n years after the
\* baseline year fails only for a price table without a required year;
\* otherwise it emits nothing at any timestep, the stock of timestep t is
\* stock[0] + t * Y for the yearly accumulation Y of the baseline cover, and
\* it ends without error with exactly two stock snapshots written.
BaselineOnlyGrowth ==
    BaselineOnlyRun =>
        /\ pc = "failed" => err = "KeyError"
        /\ BlockSetUp =>
             /\ \A t \in DOMAIN E_biomass :
                    E_biomass[t] = Zero /\ E_soil[t] = Zero
             /\ \A t \in 0..i :
                    /\ S_biomass[t] = FAdd(S_biomass[0],
                                           FMul(FromInt(t), P.Y_biomass[0]))
                    /\ S_soil[t] = FAdd(S_soil[0],
                                        FMul(FromInt(t), P.Y_soil[0]))
        /\ pc = "done" =>
             /\ err = "none"
             /\ i = args.analysis_year - args.lulc_baseline_year
             /\ StockRasters = {<<"T_s_rasters", 0>>, <<"T_s_rasters", 1>>}
             /\ \A r \in StockRasters : out[r][0] # Unwritten

BaselineOnlyGrowthWitness ==
    /\ pc = "done"
    /\ BaselineOnlyRun
    /\ C_list = <<1, 1>>
    /\ d.timesteps = 3
    /\ S_biomass[0] = FromInt(10)
    /\ P.Y_biomass[0] = FromInt(2)
    /\ S_biomass[3] = FromInt(16)

\* the snapshot years the args describe, and the years of its range that
\* the price table of the args lacks
ArgsYears ==
    <<args.lulc_baseline_year>> \o args.lulc_transition_years_list
        \o (IF args.analysis_year # NoYear THEN <<args.analysis_year>>
            ELSE <<>>)
PriceTableUsed ==
    args.econ.do_economic_analysis /\ args.econ.do_price_table
MissingYears ==
    {y \in ArgsYears[1]..ArgsYears[Len(ArgsYears)] :
        y \notin args.econ.price_table}
\* some year of the list is followed by an earlier one
Descends(l) == \E k \in 1..(Len(l) - 1) : l[k] > l[k + 1]
\* the two order checks of get_inputs pass
OrderChecksPass ==
    /\ ~Descends(args.lulc_transition_years_list)
    /\ \/ args.analysis_year = NoYear
       \/ args.analysis_year > ArgsYears[Len(ArgsYears) - 1]

SnapshotYearsStrictlyIncreasing ==
    d # NoD => StrictlyIncreasing(d.snapshot_years)

(***************************************************************************)
(* Properties of the time loop that the code does not have.                *)
(***************************************************************************)
\* the block's outputs have been written without an exception
BlockWritten == pc \in {"iterblocks", "done"} /\ block_idx >= 1

\* the timeline is the one the documentation asks for
Chronological == StrictlyIncreasing(d.snapshot_years)

One == FromInt(1)

\* a <= b for finite a, b
FLe(a, b) == FGeZero(FSub(b, a))

\* exactly the ledger n0 of R is non-zero, and it has a transition year
SingleDisturbance(R, n0) ==
    /\ n0 < Len(d.transition_years)
    /\ ~FEq(R[n0], Zero)
    /\ \A n \in DOMAIN R : n # n0 => FEq(R[n], Zero)

\* for one pool with the ledgers R, the emissions E and the rates Y
DecayCompletenessOf(R, E, Y) ==
    \A n0 \in DOMAIN R :
        (SingleDisturbance(R, n0) /\ \A n \in DOMAIN Y : FEq(Y[n], Zero)) =>
            LET j == EmissionOffset(d.transition_years, n0)
            IN  /\ \A t \in j..(d.timesteps - 1) :
                       FEq(SumSlice(Zero, E, j, t + 1),
                           FMul(R[n0], FSub(One, Pow2F(0 - (t - j + 1)))))
                /\ \A t \in 0..(d.timesteps - 1) :
                       FLe(SumSlice(Zero, E, 0, t + 1), R[n0])

\* C2: for a single disturbed-carbon ledger R with offset j, no
\* accumulation and no other disturbance, the emissions of the timesteps
\* j..t sum to R * (1 - 0.5^(t-j+1)), and the emissions of all timesteps up
\* to t never sum to more than R.
DecayCompleteness ==
    (BlockSetUp /\ AllMapped /\ Chronological /\ pc = "timeloop"
        /\ i = d.timesteps) =>
        /\ DecayCompletenessOf(R_biomass, E_biomass, P.Y_biomass)
        /\ DecayCompletenessOf(R_soil, E_soil, P.Y_soil)

\* C3: when the baseline pixel of a block is nodata, every output raster
\* holds the nodata value NODATA_FLOAT for that block once it is written.
NodataPropagation ==
    (BlockWritten /\ Chronological /\ C_list[1] = C_nodata) =>
        \A r \in File_Registry : out[r][0] = NODATA_FLOAT

RECURSIVE RangeSum(_, _, _, _)
\* the sum of X over the timesteps lo, lo + 1, ..., hi - 1
RangeSum(acc, X, lo, hi) ==
    IF lo >= hi THEN acc
    ELSE RangeSum(IF lo \in DOMAIN X THEN FAdd(acc, X[lo]) ELSE acc,
                  X, lo + 1, hi)

\* C4: the per-period accumulation, emission and net-sequestration values
\* written for the period of the snapshot years (s_k, s_k+1) are the sums
\* of the per-timestep values (biomass + soil) over the timesteps
\* s_k - s_0, ..., s_k+1 - s_0 - 1.
SnapshotAggregation ==
    BlockWritten =>
        \A n \in 0..(Len(d.snapshot_years) - 2) :
            LET lo == s_to_timestep(d.snapshot_years, n)
                hi == s_to_timestep(d.snapshot_years, n + 1)
            IN  /\ out[<<"A_r_rasters", n>>][0] =
                       RangeSum(Zero, Pairwise(A_biomass, A_soil), lo, hi)
                /\ out[<<"E_r_rasters", n>>][0] =
                       RangeSum(Zero, Pairwise(E_biomass, E_soil), lo, hi)
                /\ out[<<"N_r_rasters", n>>][0] =
                       RangeSum(Zero, Pairwise(N_biomass, N_soil), lo, hi)

\* C6: the ledger of the change from the baseline cover to the cover of the
\* first transition year is recorded, and starts emitting, at timestep
\* first_transition_year - baseline_year: before that timestep no ledger is
\* recorded and no biomass is emitted.
FirstLedgerAtFirstTransition ==
    (BlockSetUp /\ AllMapped /\ Chronological
        /\ Len(d.transition_years) >= 1) =>
        LET first == s_to_timestep(d.snapshot_years, 1)
        IN  /\ i < first => \A n \in DOMAIN R_biomass :
                                FEq(R_biomass[n], Zero)
            /\ \A t \in 0..(i - 1) :
                   t < first => FEq(E_biomass[t], Zero)

\* C10: with non-negative initial stocks and accumulation rates and
\* disturbance fractions in [0, 1] (every code of the block in the legend),
\* the biomass stock and the soil stock are >= 0 at every timestep.
StocksNonNegative ==
    (BlockSetUp /\ AllMapped /\ Chronological) =>
        \A t \in 0..i : FGeZero(S_biomass[t]) /\ FGeZero(S_soil[t])

\* C11: write_to_raster replaces every NaN by NODATA_FLOAT, so no output
\* raster ever holds a NaN.
NoNaNWritten ==
    \A r \in DOMAIN out : \A b \in DOMAIN out[r] : ~IsNaN(out[r][b])

\* what the claims expect of reclass for one element: the value of the key,
\* NaN for a value without key and for the nodata value
ReclassExpected(value, lookup) ==
    IF value \in DOMAIN lookup /\ value # C_nodata THEN lookup[value]
    ELSE NaN

\* C12: reclass outputs d[v] for an element whose value v is a key of d and
\* NaN for an unmapped value and for the nodata value (seen on the litter
\* array, reclassified from every cover of the block, and on the stock
\* seeds).
ReclassUnmappedIsNaN ==
    BlockSetUp =>
        /\ \A n \in 0..(Len(C_list) - 1) :
               P.L[n] = ReclassExpected(At(C_list, n), lulc_to_L)
        /\ S_biomass[0] = ReclassExpected(At(C_list, 0), lulc_to_Sb)
        /\ S_soil[0] = ReclassExpected(At(C_list, 0), lulc_to_Ss)

\* C13: the disturbance fraction execute stores for a mapped pair is the
\* value of the pair, and for an unmapped pair it is missing data (masked
\* or NaN), never a number.
UnmappedPairIsMissing ==
    BlockSetUp =>
        \A n \in 0..(d.transitions - 1) :
            LET pair == <<At(C_list, n), At(C_list, n + 1)>>
            IN  /\ (pair \in DOMAIN lulc_trans_to_Db /\ pair[1] # C_nodata)
                       => P.D_biomass[n] = lulc_trans_to_Db[pair]
                /\ pair \notin DOMAIN lulc_trans_to_Db
                       => (P.D_biomass[n] = Masked \/ IsNaN(P.D_biomass[n]))
                /\ pair \notin DOMAIN lulc_trans_to_Ds
                       => (P.D_soil[n] = Masked \/ IsNaN(P.D_soil[n]))

\* the rasters of a key in the file registry
Registered(key) == {r \in File_Registry : r[1] = key}

\* C14: for every configuration get_inputs accepts, the file registry holds
\* one stock raster per snapshot year, one accumulation, emission and
\* net-sequestration raster per pair of consecutive snapshot years, one
\* total net-sequestration raster and an NPV raster exactly when economic
\* analysis is enabled; the run then writes every registered raster of a
\* block (it does not end in an exception), the stock raster of snapshot n
\* holding the total stock and litter of that snapshot.
OutputSet ==
    d # NoD =>
        /\ Registered("T_s_rasters") =
               {<<"T_s_rasters", n>> : n \in 0..(Len(ArgsYears) - 1)}
        /\ \A key \in {"A_r_rasters", "E_r_rasters", "N_r_rasters"} :
               Registered(key) = {<<key, n>> : n \in 0..(Len(ArgsYears) - 2)}
        /\ Registered("N_total_raster") = {<<"N_total_raster", 0>>}
        /\ Registered("NPV_raster") =
               (IF args.econ.do_economic_analysis
                THEN {<<"NPV_raster", 0>>} ELSE {})
        /\ \A r \in File_Registry :
               r[1] \in {"T_s_rasters", "A_r_rasters", "E_r_rasters",
                         "N_r_rasters", "N_total_raster", "NPV_raster"}
        /\ pc # "failed"
        /\ BlockWritten =>
               /\ \A r \in File_Registry : out[r][0] # Unwritten
               /\ \A n \in 0..(Len(ArgsYears) - 1) :
                      LET t == ArgsYears[n + 1] - ArgsYears[1]
                      IN  /\ t \in DOMAIN T
                          /\ out[<<"T_s_rasters", n>>][0] \in
                                 {FAdd(T[t], P.L[n]), NODATA_FLOAT}

\* the output set on the timelines whose snapshot years are strictly
\* increasing
OutputSetChronological == (d # NoD /\ Chronological) => OutputSet

\* C15: when the pixel is nodata in the baseline raster or in any
\* transition raster, every stock snapshot, every per-period raster and the
\* total net-sequestration raster hold the nodata value for that pixel once
\* the block is written, the snapshots and periods before the nodata step
\* included.
NodataAtAnyStep ==
    (BlockWritten /\ Chronological
        /\ \E n \in 1..Len(C_list) : C_list[n] = C_nodata) =>
        \A r \in File_Registry :
            r[1] # "NPV_raster" => out[r][0] = NODATA_FLOAT

\* the same, for a pixel that is valid in the baseline raster and nodata
\* in a later one, with NaN counted as nodata
NodataLaterStep ==
    (BlockWritten /\ Chronological /\ C_list[1] \in DOMAIN lulc_to_Sb
        /\ \E n \in 2..Len(C_list) : C_list[n] = C_nodata) =>
        \A r \in File_Registry :
            r[1] # "NPV_raster" =>
                (out[r][0] = NODATA_FLOAT \/ IsNaN(out[r][0]))

\* transition_of(t) of the run
transition_of(t) ==
    timestep_to_transition_idx(d.snapshot_years, d.transitions, t)

\* the timesteps of the transient analysis of an accepted timeline
LoopTimesteps == IF d = NoD THEN {} ELSE 0..(d.timesteps - 1)

\* the transition indices n with snapshot_year[n] - snapshot_year[0] <= t <
\* snapshot_year[n+1] - snapshot_year[0]
Enclosing(t) ==
    {n \in 0..(Len(d.snapshot_years) - 2) :
        /\ s_to_timestep(d.snapshot_years, n) <= t
        /\ t < s_to_timestep(d.snapshot_years, n + 1)}

\* C16: for every accepted timeline and every timestep t of the loop,
\* timestep_to_transition_idx returns an index of [0, transitions), the only
\* index n with snapshot_year[n] - snapshot_year[0] <= t <
\* snapshot_year[n+1] - snapshot_year[0]; timestep 0 maps to transition 0.
TransitionMapping ==
    \A t \in LoopTimesteps :
        /\ transition_of(t) \in 0..(d.transitions - 1)
        /\ Enclosing(t) = {transition_of(t)}
        /\ t = 0 => transition_of(t) = 0

\* the mapping on the timelines whose snapshot years are strictly increasing
TransitionMappingChronological ==
    (d # NoD /\ Chronological) => TransitionMapping

\* C17: for every accepted timeline and every timestep t of the loop,
\* is_transition_year(t) is true exactly when transition_of(t) differs from
\* transition_of(t - 1).
TransitionBoundary ==
    \A t \in LoopTimesteps :
        is_transition_year(d.snapshot_years, d.transitions, t)
            <=> (transition_of(t) # transition_of(t - 1))

\* the loop has passed the boundary timestep 1 of a timeline with the
\* snapshot years 2000, 2001, 2003 and recorded the ledger of transition 1
TransitionBoundaryWitness ==
    /\ pc = "timeloop"
    /\ d.snapshot_years = <<BaseYear, BaseYear + 1, BaseYear + 3>>
    /\ i = 3
    /\ transition_of(0) = 0 /\ transition_of(1) = 1 /\ transition_of(2) = 1
    /\ is_transition_year(d.snapshot_years, d.transitions, 1)
    /\ ~is_transition_year(d.snapshot_years, d.transitions, 2)
    /\ R_assigned[1] = {1}

\* the ledger of transition n holds D[n] * stock[t] in both pools
LedgerValue(n, t) ==
    /\ R_biomass[n] = FMul(P.D_biomass[n], S_biomass[t])
    /\ R_soil[n] = FMul(P.D_soil[n], S_soil[t])

\* the time loop of the block has run to its end
LoopDone == BlockSetUp /\ (pc # "timeloop" \/ i = d.timesteps)

\* C18 as stated: when the time loop of a block has ended, the ledger of
\* every transition n >= 1 has been assigned exactly once, at the timestep
\* snapshot_year[n] - snapshot_year[0], with D[n] * stock at that timestep,
\* and the ledger of transition 0 once, before the loop, with D[0] *
\* stock[0] (here on the strictly increasing timelines).
LedgerCapturedOnce ==
    (LoopDone /\ Chronological) =>
        /\ R_assigned[0] = {BeforeLoop} /\ LedgerValue(0, 0)
        /\ \A n \in 1..(d.transitions - 1) :
               LET t_n == s_to_timestep(d.snapshot_years, n)
               IN  R_assigned[n] = {t_n} /\ LedgerValue(n, t_n)

\* C18: the ledger of transition 0 is assigned once, before the loop, with
\* D[0] * stock[0].  The ledger of a transition n >= 1 is assigned at most
\* once: at the timestep t_n = snapshot_year[n] - snapshot_year[0], with
\* D[n] * stock[t_n], when t_n is a timestep of the loop and a later
\* snapshot year follows snapshot_year[n]; otherwise it is never assigned
\* and stays 0 (the ledger of the last transition of a run without
\* analysis year).  No recorded value changes later.
LedgerCapturedAtMostOnce ==
    BlockSetUp =>
        /\ R_assigned[0] = {BeforeLoop} /\ LedgerValue(0, 0)
        /\ \A n \in 1..(d.transitions - 1) :
               LET t_n == s_to_timestep(d.snapshot_years, n)
                   due == /\ 0 <= t_n /\ t_n < i
                          /\ n + 2 <= Len(d.snapshot_years)
                          /\ At(d.snapshot_years, n) <
                                 At(d.snapshot_years, n + 1)
               IN  IF due
                   THEN R_assigned[n] = {t_n} /\ LedgerValue(n, t_n)
                   ELSE /\ R_assigned[n] = {}
                        /\ R_biomass[n] = Zero /\ R_soil[n] = Zero

\* the loop of a run with the snapshot years 2000, 2001, 2003 and no
\* analysis year has ended: ledger 1 was recorded at timestep 1, ledger 2
\* never
LedgerCapturedWitness ==
    /\ pc = "timeloop" /\ i = d.timesteps
    /\ d.snapshot_years = <<BaseYear, BaseYear + 1, BaseYear + 3>>
    /\ d.transitions = 3
    /\ C_list = <<1, 2, 1, 1>>
    /\ R_assigned = (0 :> {BeforeLoop} @@ 1 :> {1} @@ 2 :> {})
    /\ ~FEq(R_biomass[1], Zero)
    /\ R_biomass[2] = Zero

RECURSIVE DecaySum(_, _, _, _, _)
\* the sum over the transition indices j..last that have a transition year
\* of R[j] * (0.5^(t - j_year) - 0.5^(t - j_year + 1)), with
\* j_year = transition_year[j] - first_year
DecaySum(acc, R, j, last, t) ==
    IF j > last \/ j >= Len(d.transition_years) THEN acc
    ELSE LET j_year == At(d.transition_years, j) - At(d.snapshot_years, 0)
         IN  DecaySum(FAdd(acc, FMul(R[j], DecayWeight(t - j_year))),
                      R, j + 1, last, t)

\* C19: at every timestep t of the loop and for each pool, E[t] is the sum
\* over the transition indices j <= transition_of(t) that have a transition
\* year of R[j] * (0.5^(t - j_year) - 0.5^(t - j_year + 1)), where j_year is
\* transition_year[j] minus the baseline year.
EmissionFormula ==
    (BlockSetUp /\ AllMapped /\ Chronological) =>
        \A t \in 0..(i - 1) :
            /\ E_biomass[t] =
                   DecaySum(Zero, R_biomass, 0, transition_of(t), t)
            /\ E_soil[t] = DecaySum(Zero, R_soil, 0, transition_of(t), t)

\* the value stored for a cover (or pair of covers) of the legend is the
\* value of the table
LookedUp(value, key, table) == key \in DOMAIN table => value = table[key]

\* C20: the cover list is the baseline block, the transition blocks and the
\* last block once more; Y[n] is looked up for the destination cover
\* cover[n+1], H[n] for the source cover cover[n] and D[n] for the pair
\* (cover[n], cover[n+1]); at every timestep t of the loop A[t] is
\* Y[transition_of(t)], for each pool.
AccumulationRates ==
    BlockSetUp =>
        /\ Len(C_list) = Len(d.transition_years) + 2
        /\ C_list[Len(C_list)] = C_list[Len(C_list) - 1]
        /\ \A n \in 0..(d.transitions - 1) :
               LET src == At(C_list, n)
                   dst == At(C_list, n + 1)
               IN  /\ LookedUp(P.Y_biomass[n], dst, lulc_to_Yb)
                   /\ LookedUp(P.Y_soil[n], dst, lulc_to_Ys)
                   /\ LookedUp(P.H_biomass[n], src, lulc_to_Hb)
                   /\ LookedUp(P.H_soil[n], src, lulc_to_Hs)
                   /\ LookedUp(P.D_biomass[n], <<src, dst>>,
                               lulc_trans_to_Db)
                   /\ LookedUp(P.D_soil[n], <<src, dst>>, lulc_trans_to_Ds)
        /\ \A t \in 0..(i - 1) :
               /\ A_biomass[t] = P.Y_biomass[transition_of(t)]
               /\ A_soil[t] = P.Y_soil[transition_of(t)]

\* a run with the snapshot years 2000, 2001, 2003 on a pixel that changes
\* from cover 2 to cover 1 has accumulated at the rate of cover 1 from
\* timestep 0 on
AccumulationRatesWitness ==
    /\ pc = "timeloop" /\ i = 3
    /\ d.snapshot_years = <<BaseYear, BaseYear + 1, BaseYear + 3>>
    /\ C_list = <<2, 1, 1>>
    /\ lulc_to_Yb[2] # lulc_to_Yb[1]
    /\ P.Y_biomass[0] = lulc_to_Yb[1]
    /\ P.H_biomass[0] = lulc_to_Hb[2]
    /\ A_biomass[0] = FromInt(2) /\ A_biomass[2] = FromInt(2)

\* C21: with economic analysis enabled, V[t] = (N_biomass[t] + N_soil[0])
\* * price_t[t] at every timestep t of the loop and the NPV raster holds
\* the sum of V over all timesteps; with economic analysis disabled V
\* stays zero and there is no NPV raster.
ValuationFormula ==
    BlockSetUp =>
        IF d.do_economic_analysis
        THEN /\ \A t \in 0..(i - 1) :
                    V[t] = FMul(FAdd(N_biomass[t], N_soil[0]),
                                At(d.price_t, t))
             /\ BlockWritten =>
                    out[<<"NPV_raster", 0>>][0] =
                        RangeSum(Zero, V, 0, d.timesteps)
        ELSE /\ \A t \in DOMAIN V : V[t] = Zero
             /\ <<"NPV_raster", 0>> \notin File_Registry

\* a block of a run over 2000, 2001, 2003 with the flat price is written:
\* the soil net sequestration of timestep 2 differs from that of timestep
\* 0, and the NPV raster holds a value other than 0
ValuationFormulaWitness ==
    /\ BlockWritten
    /\ d.do_economic_analysis
    /\ d.snapshot_years = <<BaseYear, BaseYear + 1, BaseYear + 3>>
    /\ C_list = <<1, 2, 1, 1>>
    /\ N_soil[2] # N_soil[0]
    /\ ~FEq(N_soil[0], Zero)
    /\ ~FEq(out[<<"NPV_raster", 0>>][0], Zero)
    /\ ~IsNaN(out[<<"NPV_raster", 0>>][0])

\* C22: the stock raster of snapshot k holds the total stock T of the
\* timestep snapshot_year[k] - snapshot_year[0] plus the litter of the cover
\* of snapshot k (the baseline cover, the k-th transition raster, the last
\* transition raster for the analysis year), and litter never enters the
\* per-timestep stocks: T[t] = S_biomass[t] + S_soil[t].
LitterInStockSnapshots ==
    /\ (BlockSetUp /\ AllMapped) =>
           \A t \in 0..i : T[t] = FAdd(S_biomass[t], S_soil[t])
    /\ (BlockWritten /\ AllMapped) =>
           \A k \in 0..(Len(d.snapshot_years) - 1) :
               LET t_k == s_to_timestep(d.snapshot_years, k)
               IN  /\ t_k \in DOMAIN T
                   /\ out[<<"T_s_rasters", k>>][0] =
                          FAdd(T[t_k], lulc_to_L[At(C_list, k)])

\* the litter of the stock rasters on the timelines whose snapshot years
\* are strictly increasing
LitterChronological == (d # NoD /\ Chronological) => LitterInStockSnapshots

\* C23: half-life is inert. Of two runs of execute whose inputs differ only
\* in the biomass and soil half-life columns of the transient table, the
\* second ends as the first did and has written the same value to every
\* block of every output raster.
HalfLifeInert ==
    (first_run # NoRun /\ pc \in {"done", "failed"}) =>
        /\ pc = first_run.pc
        /\ err = first_run.err
        /\ out = first_run.out

\* both runs are complete, the half-life arrays of the second differ from
\* the parsed columns, and a disturbed stock has been emitted
HalfLifeInertWitness ==
    /\ first_run # NoRun
    /\ pc = "done"
    /\ H_tables # HalfLives
    /\ P.H_biomass[0] = FromInt(1)
    /\ \E r \in File_Registry :
           /\ r[1] = "E_r_rasters"
           /\ ~FEq(out[r][0], Zero)
           /\ ~IsNaN(out[r][0])
           /\ out[r][0] # NODATA_FLOAT

\* C24: reclass is pure. After the calls of reclass made for a block, no
\* lookup dictionary passed to it holds a key it did not hold before the
\* call, and the land-cover arrays passed to it are what was read from the
\* rasters.
ReclassIsPure ==
    /\ \A name \in ReclassDicts : name \notin ndata_keys
    /\ pc = "timeloop" =>
           SubSeq(C_list, 1, Len(pixels[block_idx])) = pixels[block_idx]

\* the offsets of the first k blocks the iterator yields
Visited(k) == {block_order[j] : j \in 1..k}

\* the blocks of the output rasters that hold a written array
WrittenCells ==
    {c \in File_Registry \X (0..(num_blocks - 1)) :
        out[c[1]][c[2]] # Unwritten}

\* C25: block scheduling. The blocks are taken one at a time in the order of
\* the iterator; every raster read for a block is read at that block's
\* offset; a block that has been processed has been written once to every
\* output raster, at its own offset, and no block of an output raster is
\* written twice; when execute returns, every block of every output raster
\* has been written.
BlockScheduling ==
    d # NoD =>
        /\ block_idx <= num_blocks
        /\ blocks_processed = IF pc = "iterblocks" \/ pc = "done"
                              THEN block_idx ELSE block_idx + 1
        /\ (first_run = NoRun /\ pc # "failed") =>
               /\ DOMAIN pixels = Visited(blocks_processed)
               /\ io.reads = blocks_processed * (1 + Len(d.transition_years))
        /\ io.writes = Cardinality(WrittenCells)
        /\ \A c \in WrittenCells : c[2] \in Visited(blocks_processed)
        /\ \A j \in 1..block_idx : \A r \in File_Registry :
               <<r, block_order[j]>> \in WrittenCells
        /\ pc = "done" =>
               /\ block_idx = num_blocks
               /\ WrittenCells = File_Registry \X (0..(num_blocks - 1))

\* execute has returned from a raster of three blocks met in the order
\* 2, 0, 1
BlockSchedulingWitness ==
    /\ pc = "done"
    /\ num_blocks = 3
    /\ block_order = <<2, 0, 1>>
    /\ io.writes = 3 * Cardinality(File_Registry)

\* a block that both runs have written holds the same value in both
SameWrittenBlocks ==
    \A r \in File_Registry \cap DOMAIN first_run.out :
        \A b \in 0..(num_blocks - 1) :
            (out[r][b] # Unwritten /\ first_run.out[r][b] # Unwritten) =>
                out[r][b] = first_run.out[r][b]

\* C26: no cross-block state. Of two runs of execute on the same arguments
\* and rasters that meet the blocks in different orders, the second writes
\* to every block of every output raster the value the first wrote there,
\* and when both return the output rasters are the same.
NoCrossBlockState ==
    first_run # NoRun =>
        /\ SameWrittenBlocks
        /\ pc \in {"done", "failed"} =>
               /\ pc = first_run.pc
               /\ err = first_run.err
               /\ pc = "done" => out = first_run.out

\* both runs have returned, the second met three blocks in the order 2, 0, 1
\* and the lookup dictionaries held the injected key from its first block on;
\* the blocks hold different covers, one of them outside the legend
NoCrossBlockStateWitness ==
    /\ first_run # NoRun
    /\ first_run.pc = "done"
    /\ pc = "done"
    /\ block_order = <<2, 0, 1>>
    /\ ndata_keys = ReclassDicts
    /\ pixels[0] # pixels[1]
    /\ pixels[1] # pixels[2]
    /\ pixels[2] = <<9>>
    /\ C_nodata = 0
    /\ out[<<"T_s_rasters", 0>>][0] # out[<<"T_s_rasters", 0>>][1]

\* C27: progress throttling. Any two consecutive progress messages of the
\* block loop are at least ProgressInterval seconds apart.
ProgressThrottled ==
    \A k \in 1..(Len(progress) - 1) :
        progress[k + 1].time - progress[k].time >= ProgressInterval

\* the same number, or nodata on both sides
SameValue(a, b) == FEq(a, b) \/ (IsNaN(a) /\ IsNaN(b))

RECURSIVE SumRasters(_, _, _)
\* the sum over the periods 0 .. n - 1 of the written net sequestration
SumRasters(acc, name, n) ==
    IF n = 0 THEN acc
    ELSE FAdd(SumRasters(acc, name, n - 1), out[<<name, n - 1>>][0])

\* C28: carbon balance of the outputs. For a written block, the total net
\* sequestration raster equals the total stock of the last timestep minus
\* that of timestep 0, and equals the sum of the net sequestration rasters
\* of the periods.
CarbonBalance ==
    BlockWritten =>
        LET N_total == out[<<"N_total_raster", 0>>][0]
        IN  /\ SameValue(N_total, FSub(T[d.timesteps], T[0]))
            /\ SameValue(N_total,
                         SumRasters(Zero, "N_r_rasters",
                                    Len(d.snapshot_years) - 1))

\* the balance on strictly increasing timelines with every cover in the
\* legend
CarbonBalanceChronological ==
    (d # NoD /\ Chronological /\ AllMapped) => CarbonBalance

\* the balance whenever every cover of the block is in the legend
CarbonBalanceMapped == AllMapped => CarbonBalance

\* the ledger n of R is part of the emission of timestep t
Contributes(R, n, t) ==
    /\ n <= transition_of(t)
    /\ n < Len(d.transition_years)
    /\ ~FEq(R[n], Zero)
    /\ ~IsNaN(R[n])

\* C29: decay weights are fractions. On a strictly increasing timeline,
\* whenever a ledger is part of the emission of a timestep t, t is not
\* before the offset j_year used for that ledger, and the weight
\* 0.5^(t - j_year) - 0.5^(t - j_year + 1) is positive and at most 1/2.
DecayWeightsAreFractions ==
    (BlockSetUp /\ AllMapped /\ Chronological) =>
        \A t \in 0..(i - 1) : \A n \in 0..(d.transitions - 1) :
            (Contributes(R_biomass, n, t) \/ Contributes(R_soil, n, t)) =>
                LET j_year == EmissionOffset(d.transition_years, n)
                IN  /\ t >= j_year
                    /\ FLe(DecayWeight(t - j_year), Pow2F(0 - 1))
                    /\ ~FGeZero(FNeg(DecayWeight(t - j_year)))

\* no thread of hashfile can take a step although hashfile has not returned
HashStuck ==
    /\ thread.main = "join"
    /\ ~ENABLED NextHash

\* C30: hashfile is deadlock-free and returns the digest. Whatever the
\* file, the mode and the interleaving of the two threads, some thread can
\* take a step until hashfile has returned; when the hasher has left its
\* loop it has been given every item the reader puts before the sentinel,
\* in order; and the value hashfile returns is the digest of these items
\* (with the suffix of the mode), never a buffer or the sentinel.
HashfileReturnsDigest ==
    thread.main # "idle" =>
        /\ ~HashStuck
        /\ thread.hasher \in {"put", "done"} =>
               hasher = Flatten(FileItems(file, fast_hash))
        /\ thread.main = "returned" =>
               file_hash = IF fast_hash
                           THEN Append(hexdigest(Flatten(FileItems(file,
                                           fast_hash))), "_fast_hash")
                           ELSE hexdigest(Flatten(FileItems(file,
                                           fast_hash)))

\* hashfile returns the digest of every file that holds no buffer and has
\* no name equal to the text of the sentinel
HashfileWithoutSentinelText ==
    (\A k \in 1..Len(FileItems(file, fast_hash)) :
         FileItems(file, fast_hash)[k] # STOP) => HashfileReturnsDigest
====
